---- MODULE Spec2Model ----
(***************************************************************************)
(* Greedy and exhaustive selection of armor items under a gold budget      *)
(* (maxtime.hh).  One behaviour is one pair of calls on the same input:    *)
(* greedy_max_defense(armors, total_cost) runs to completion, then         *)
(* exhaustive_max_defense(armors, total_cost).  Loops advance one          *)
(* iteration per step.                                                     *)
(*                                                                         *)
(* Items are identified by their position in the input vector (0-based,    *)
(* as in the code); the vectors of shared pointers `source` and `output`   *)
(* are sequences of such positions.  Costs and defense points are doubles  *)
(* in the code; the inputs drawn here are small integers, on which double  *)
(* addition is exact and the quotient defense/cost is compared by cross    *)
(* multiplication (costs are positive, ArmorItem asserts it).              *)
(***************************************************************************)
EXTENDS Integers, Naturals, Sequences, FiniteSets, TLC

\* ------------------------------------------------------------------ bounds
MaxItems  == 3      \* longest enumerated input vector
MaxCost   == 2      \* costs are drawn from 1..MaxCost
MaxValue  == 2      \* defense points are drawn from 0..MaxValue
MaxBudget == 3      \* budgets are drawn from -1..MaxBudget

\* ------------------------------------------------------- program constants
AssertLimit == 64   \* assert(n < 64)
IntMax == 2147483647    \* largest value of `int pn` (32 bits)
IntMin == -IntMax - 1

\* ------------------------------------------------------------------ inputs
ArmorItem == [cost : 1..MaxCost, defense : 0..MaxValue]

RECURSIVE SeqsUpTo(_, _)
SeqsUpTo(S, len) ==
    IF len = 0 THEN {<< >>}
    ELSE LET shorter == SeqsUpTo(S, len - 1)
         IN  shorter \cup { Append(s, x) : s \in { t \in shorter : Len(t) = len - 1 }, x \in S }

SmallInputs == SeqsUpTo(ArmorItem, MaxItems)
Budgets     == (-1)..MaxBudget

\* the scenario of the specification: three items, budget 50
ScenarioItems  == << [cost |-> 10, defense |-> 60],
                     [cost |-> 20, defense |-> 100],
                     [cost |-> 30, defense |-> 120] >>

\* long vectors allowed by assert(n < 64): every item costs 1; only the
\* last one has a defense point
LargeSizes == {31, 32, 63}
LargeItems(n) == [ p \in 1..n |-> [cost |-> 1, defense |-> IF p = n THEN 1 ELSE 0] ]
LargeBudget == 1

VARIABLES
    armors,             \* const ArmorVector& armors
    total_cost,         \* double total_cost (the budget)
    pc,                 \* position in the two calls
    source,             \* greedy: working copy
    g_output,           \* greedy: output
    g_current_cost,     \* greedy: current_cost
    pn,                 \* exhaustive: size of power set
    k,                  \* exhaustive: counter of the doubling loop
    i,                  \* exhaustive: enumeration counter
    bitmask_string,     \* exhaustive: subset string of the last iteration
    e_current_cost,     \* exhaustive: current_cost
    e_current_defense,  \* exhaustive: current_defense
    best_defense,       \* exhaustive: best_defense
    best_set,           \* exhaustive: best_set
    e_output,           \* exhaustive: output
    j,                  \* exhaustive: counter of the output loop
    ub                  \* undefined behaviour met so far: "none", "overflow", "oob"

vars == << armors, total_cost, pc, source, g_output, g_current_cost, pn, k, i,
           bitmask_string, e_current_cost, e_current_defense, best_defense,
           best_set, e_output, j, ub >>

greedyVars == << source, g_output, g_current_cost >>
exhVars    == << pn, k, i, bitmask_string, e_current_cost, e_current_defense,
                 best_defense, best_set, e_output, j, ub >>

n == Len(armors)
Item(idx) == armors[idx + 1]

\* sum_armor_vector: total cost of a vector of items
RECURSIVE SumCost(_)
SumCost(sel) == IF sel = << >> THEN 0 ELSE Item(Head(sel)).cost + SumCost(Tail(sel))

\* sum_armor_vector: total defense of a vector of items
RECURSIVE SumDefense(_)
SumDefense(sel) == IF sel = << >> THEN 0 ELSE Item(Head(sel)).defense + SumDefense(Tail(sel))

\* ----------------------------------------------------------- get_binary
Digit(rem) == IF rem = 1 THEN "1" ELSE "0"

\* while(num != 0) { bin_str += '0' + num % 2; num /= 2; }
RECURSIVE ReverseBinary(_)
ReverseBinary(num) ==
    IF num = 0 THEN << >> ELSE << Digit(num % 2) >> \o ReverseBinary(num \div 2)

\* for(i = sz; i < len; i++) bin_str += '0';
PadZeros(s, len) ==
    IF Len(s) >= len THEN s ELSE s \o [ p \in 1..(len - Len(s)) |-> "0" ]

\* for(i = 0; i < len / 2; i++) swap(bin_str[i], bin_str[len - 1 - i]);
SwapEnds(s, len) ==
    [ p \in 1..Len(s) |-> IF p <= len THEN s[len + 1 - p] ELSE s[p] ]

get_binary_noswap(num, len) == PadZeros(ReverseBinary(num), len)

get_binary(num, len) == SwapEnds(PadZeros(ReverseBinary(num), len), len)

\* ----------------------------------------------------- greedy_max_defense
RatioGreaterOrEqual(cur, max) == cur.defense * max.cost >= max.defense * cur.cost

\* cur_ratio > max_ratio, both quotients defense / cost with cost > 0
RatioGreater(cur, max) == cur.defense * max.cost > max.defense * cur.cost

\* the scan for (auto& armor : source): position (1-based) of the chosen item
RECURSIVE ScanFrom(_, _, _)
ScanFrom(src, loop_pos, optimal_choice_pos) ==
    IF loop_pos > Len(src) THEN optimal_choice_pos
    ELSE IF RatioGreater(Item(src[loop_pos]), Item(src[optimal_choice_pos]))
         THEN ScanFrom(src, loop_pos + 1, loop_pos)
         ELSE ScanFrom(src, loop_pos + 1, optimal_choice_pos)

OptimalChoicePos(src) == ScanFrom(src, 2, 1)

\* current_cost + source[optimal_choice_pos]->cost() <= total_cost
Fits(cur, cost, budget) == cur + cost <= budget

AddCostOverwrite(cur, cost) == cost

\* current_cost += source[optimal_choice_pos]->cost()
AddCost(cur, cost) == cur + cost

\* source.erase(source.begin() + optimal_choice_pos)
Erase(src, p) == [ q \in 1..(Len(src) - 1) |-> IF q < p THEN src[q] ELSE src[q + 1] ]

\* ------------------------------------------------- exhaustive_max_defense
\* pn * 2 stays within the range of int
DoubleFits(x) == x <= IntMax \div 2 /\ x >= IntMin \div 2

\* the value an int holds after pn *= 2 wrapped around (two's complement):
\* 2x - 2^32 above the range, 2x + 2^32 below it
WrapDouble(x) ==
    IF x > 0 THEN 2 * ((x - IntMax) - 1) ELSE 2 * ((x + IntMax) + 1)

\* for(j = 0; j < n; j++) if(bitmask_string[j] == '1')
\*     current_cost += armors[j]->cost();
RECURSIVE MaskCost(_, _)
MaskCost(str, from) ==
    IF from >= n THEN 0
    ELSE (IF str[from + 1] = "1" THEN Item(from).cost ELSE 0) + MaskCost(str, from + 1)

\*     current_defense += armors[j]->defense();
RECURSIVE MaskDefense(_, _)
MaskDefense(str, from) ==
    IF from >= n THEN 0
    ELSE (IF str[from + 1] = "1" THEN Item(from).defense ELSE 0) + MaskDefense(str, from + 1)

ImprovesIgnoringBudget(cost, defense, best, budget) == defense > best

\* current_cost <= total_cost && current_defense > best_defense
Improves(cost, defense, best, budget) == cost <= budget /\ defense > best

\* ---------------------------------------------------------------- the run
Init ==
    /\ \/ armors \in SmallInputs /\ total_cost \in Budgets
       \/ armors = ScenarioItems /\ total_cost = 50
       \/ armors \in { LargeItems(m) : m \in LargeSizes } /\ total_cost = LargeBudget
    /\ pc = "start"
    /\ source = << >>
    /\ g_output = << >>
    /\ g_current_cost = 0
    /\ pn = 1
    /\ k = 0
    /\ i = 0
    /\ bitmask_string = << >>
    /\ e_current_cost = -1
    /\ e_current_defense = -1
    /\ best_defense = -1
    /\ best_set = << >>
    /\ e_output = << >>
    /\ j = 0
    /\ ub = "none"

\* ArmorVector output; ArmorVector source = armors; double current_cost = 0.0;
GreedyEnter ==
    /\ pc = "start"
    /\ source' = [ p \in 1..n |-> p - 1 ]
    /\ g_output' = << >>
    /\ g_current_cost' = 0
    /\ pc' = "greedy"
    /\ UNCHANGED << armors, total_cost >>
    /\ UNCHANGED exhVars

\* one iteration of while(!source.empty())
GreedyIter ==
    /\ pc = "greedy"
    /\ source # << >>
    /\ LET optimal_choice_pos == OptimalChoicePos(source)
           chosen == source[optimal_choice_pos]
           cost   == Item(chosen).cost
       IN  /\ IF Fits(g_current_cost, cost, total_cost)
              THEN /\ g_current_cost' = AddCost(g_current_cost, cost)
                   /\ g_output' = Append(g_output, chosen)
              ELSE /\ UNCHANGED << g_current_cost, g_output >>
           /\ source' = Erase(source, optimal_choice_pos)
    /\ UNCHANGED << armors, total_cost, pc >>
    /\ UNCHANGED exhVars

\* return std::make_unique<ArmorVector>(output);
GreedyReturn ==
    /\ pc = "greedy"
    /\ source = << >>
    /\ pc' = "exhaustive"
    /\ UNCHANGED << armors, total_cost >>
    /\ UNCHANGED greedyVars
    /\ UNCHANGED exhVars

\* assert(n < 64); the initialisations; int pn = 1;
ExhaustiveEnter ==
    /\ pc = "exhaustive"
    /\ IF n < AssertLimit
       THEN pc' = "pn_loop"
       ELSE pc' = "assert_failed"
    /\ best_defense' = -1
    /\ e_current_cost' = -1
    /\ e_current_defense' = -1
    /\ best_set' = << >>
    /\ pn' = 1
    /\ k' = 0
    /\ UNCHANGED << armors, total_cost, i, bitmask_string, e_output, j, ub >>
    /\ UNCHANGED greedyVars

\* for(int i = 0; i < n; i++) pn *= 2;  A product outside the range of int
\* is undefined: the build either wraps it or leaves defined behaviour
\* altogether (a trap, or a loop bound the optimiser derived otherwise).
PnDouble ==
    /\ pc = "pn_loop"
    /\ k < n
    /\ IF DoubleFits(pn)
       THEN /\ pn' = 2 * pn
            /\ k' = k + 1
            /\ UNCHANGED << pc, ub >>
       ELSE /\ ub' = "overflow"
            /\ \/ /\ pn' = WrapDouble(pn)
                  /\ k' = k + 1
                  /\ UNCHANGED pc
               \/ /\ pc' = "undefined"
                  /\ UNCHANGED << pn, k >>
    /\ UNCHANGED << armors, total_cost, i, bitmask_string, e_current_cost,
                    e_current_defense, best_defense, best_set, e_output, j >>
    /\ UNCHANGED greedyVars

PnExit ==
    /\ pc = "pn_loop"
    /\ k = n
    /\ pc' = "enumerate"
    /\ i' = 0
    /\ UNCHANGED << armors, total_cost, pn, k, bitmask_string, e_current_cost,
                    e_current_defense, best_defense, best_set, e_output, j, ub >>
    /\ UNCHANGED greedyVars

\* one iteration of for(int i = 0; i < pn; i++)
ExhaustiveIter ==
    /\ pc = "enumerate"
    /\ i < pn
    /\ LET str     == get_binary(i, n)
           cost    == MaskCost(str, 0)
           defense == MaskDefense(str, 0)
       IN  /\ bitmask_string' = str
           /\ e_current_cost' = cost
           /\ e_current_defense' = defense
           /\ IF Improves(cost, defense, best_defense, total_cost)
              THEN /\ best_defense' = defense
                   /\ best_set' = str
              ELSE UNCHANGED << best_defense, best_set >>
    /\ i' = i + 1
    /\ UNCHANGED << armors, total_cost, pc, pn, k, e_output, j, ub >>
    /\ UNCHANGED greedyVars

EnumerateExit ==
    /\ pc = "enumerate"
    /\ i >= pn
    /\ pc' = "output"
    /\ e_output' = << >>
    /\ j' = 0
    /\ UNCHANGED << armors, total_cost, pn, k, i, bitmask_string, e_current_cost,
                    e_current_defense, best_defense, best_set, ub >>
    /\ UNCHANGED greedyVars

\* one iteration of for(int i = 0; i < n; i++) if(best_set[i] == '1').
\* best_set[size()] is the terminating '\0'; an index beyond size() reads an
\* indeterminate byte, which may or may not compare equal to '1'.  Beyond
\* position MaxItems the byte is taken to differ from '1'.
OutputStep ==
    /\ pc = "output"
    /\ j < n
    /\ \E is_one \in BOOLEAN :
          /\ IF j < Len(best_set) THEN is_one = (best_set[j + 1] = "1")
             ELSE IF j = Len(best_set) THEN is_one = FALSE
             ELSE j > MaxItems => is_one = FALSE
          /\ e_output' = IF is_one THEN Append(e_output, j) ELSE e_output
    /\ ub' = IF j > Len(best_set) THEN "oob" ELSE ub
    /\ j' = j + 1
    /\ UNCHANGED << armors, total_cost, pc, pn, k, i, bitmask_string, e_current_cost,
                    e_current_defense, best_defense, best_set >>
    /\ UNCHANGED greedyVars

\* return std::make_unique<ArmorVector>(output);
ExhaustiveReturn ==
    /\ pc = "output"
    /\ j = n
    /\ pc' = "done"
    /\ UNCHANGED << armors, total_cost, pn, k, i, bitmask_string, e_current_cost,
                    e_current_defense, best_defense, best_set, e_output, j, ub >>
    /\ UNCHANGED greedyVars

Next ==
    \/ GreedyEnter
    \/ GreedyIter
    \/ GreedyReturn
    \/ ExhaustiveEnter
    \/ PnDouble
    \/ PnExit
    \/ ExhaustiveIter
    \/ EnumerateExit
    \/ OutputStep
    \/ ExhaustiveReturn

Spec == Init /\ [][Next]_vars

\* ------------------------------------------------------------- properties
Positions == 0..(n - 1)
Range(seq) == { seq[p] : p \in 1..Len(seq) }

RECURSIVE Pow2(_)
Pow2(e) == IF e = 0 THEN 1 ELSE 2 * Pow2(e - 1)

\* bit b of x, bit 0 the least significant
Bit(x, b) == (x \div Pow2(b)) % 2

RECURSIVE SetCost(_)
SetCost(S) == IF S = {} THEN 0
              ELSE LET x == CHOOSE y \in S : TRUE IN Item(x).cost + SetCost(S \ {x})

RECURSIVE SetDefense(_)
SetDefense(S) == IF S = {} THEN 0
                 ELSE LET x == CHOOSE y \in S : TRUE IN Item(x).defense + SetDefense(S \ {x})

\* the positions a subset string designates
Chosen(str) == { idx \in Positions : idx < Len(str) /\ str[idx + 1] = "1" }

\* the greatest total defense of a subset of the first m items whose total
\* cost is at most b (b >= 0)
RECURSIVE MaxDefenseWithin(_, _)
MaxDefenseWithin(m, b) ==
    IF m = 0 THEN 0
    ELSE LET skip == MaxDefenseWithin(m - 1, b)
             item == armors[m]
         IN  IF item.cost > b THEN skip
             ELSE LET take == item.defense + MaxDefenseWithin(m - 1, b - item.cost)
                  IN  IF take > skip THEN take ELSE skip

Returned == pc = "done"
GreedyReturned == pc \notin {"start", "greedy"}

\* C1: with n < 64 and a budget >= 0, the selection returned by
\* exhaustive_max_defense costs at most the budget and no subset of the items
\* within the budget has a greater total defense.
C1_ExhaustiveOptimal ==
    (Returned /\ n < AssertLimit /\ total_cost >= 0) =>
        /\ SumCost(e_output) <= total_cost
        /\ SumDefense(e_output) >= MaxDefenseWithin(n, total_cost)

\* x = 2^e, decided without forming 2^e
RECURSIVE IsTwoToThe(_, _)
IsTwoToThe(x, e) ==
    IF e = 0 THEN x = 1 ELSE x > 0 /\ x % 2 = 0 /\ IsTwoToThe(x \div 2, e - 1)

\* C2: for every n < 64 the doubling loop never overflows and leaves
\* pn = 2^n, so that the enumeration covers all 2^n bitmasks.
C2_PnIsTwoToTheN ==
    n < AssertLimit =>
        /\ ub # "overflow"
        /\ pc = "enumerate" => IsTwoToThe(pn, n)

\* C3: the selection returned by exhaustive_max_defense has a total defense
\* >= that of the selection returned by greedy_max_defense on the same input.
C3_ExhaustiveAtLeastGreedy ==
    Returned => SumDefense(e_output) >= SumDefense(g_output)

\* C4: with a budget >= 0, after every iteration of the greedy loop
\* current_cost is the total cost of output and is <= budget, and the
\* selection returned by exhaustive_max_defense costs <= budget as well.
C4_Feasible ==
    total_cost >= 0 =>
        /\ g_current_cost = SumCost(g_output)
        /\ g_current_cost <= total_cost
        /\ Returned => SumCost(e_output) <= total_cost

\* C5: on an empty item vector, or with a budget <= 0 (n < 64), both
\* optimizers return the empty selection and nothing fails: no assertion
\* failure, no overflow, no read past the end of best_set.
C5_DegenerateInputGivesEmpty ==
    (n < AssertLimit /\ (n = 0 \/ total_cost <= 0)) =>
        /\ ub = "none"
        /\ pc \notin {"assert_failed", "undefined"}
        /\ GreedyReturned => g_output = << >>
        /\ Returned => e_output = << >>

\* the iteration for bitmask x has just run
Evaluated(x) == pc = "enumerate" /\ i = x + 1

\* C6 (as stated): the subset evaluated for i holds item j iff bit j of i is
\* set, bit 0 being the least significant one.
C6_BitJIsItemJ ==
    \A x \in 0..(i - 1) :
        Evaluated(x) =>
            LET S == { idx \in Positions : Bit(x, idx) = 1 }
            IN  /\ Chosen(bitmask_string) = S
                /\ e_current_cost = SetCost(S)
                /\ e_current_defense = SetDefense(S)

\* C6 (amended): the subset evaluated for i holds item j iff bit n-1-j of i
\* is set: the most significant of the n bits stands for item 0.
C6_BitJIsItemNMinus1MinusJ ==
    \A x \in 0..(i - 1) :
        Evaluated(x) =>
            LET S == { idx \in Positions : Bit(x, (n - 1) - idx) = 1 }
            IN  /\ Chosen(bitmask_string) = S
                /\ e_current_cost = SetCost(S)
                /\ e_current_defense = SetDefense(S)

\* bitmask 1 of at least two items, of different costs, has been evaluated:
\* it designates the last item alone
C6_Witness ==
    /\ Evaluated(1)
    /\ n >= 2
    /\ Item(0).cost # Item(n - 1).cost
    /\ Chosen(bitmask_string) = {n - 1}

\* the bitmask under which the enumeration meets the subset S
MaskIndex(S) == CHOOSE x \in 0..(Pow2(n) - 1) : Chosen(get_binary(x, n)) = S

\* C7: among the feasible subsets of maximum total defense,
\* exhaustive_max_defense returns the one of lowest bitmask.
C7_FirstMaximumReturned ==
    (Returned /\ total_cost >= 0) =>
        LET out == Range(e_output)
        IN  /\ SetCost(out) <= total_cost
            /\ SetDefense(out) = MaxDefenseWithin(n, total_cost)
            /\ \A x \in 0..(Pow2(n) - 1) :
                  LET S == Chosen(get_binary(x, n))
                  IN  (SetCost(S) <= total_cost /\ SetDefense(S) = SetDefense(out))
                          => x >= MaskIndex(out)

\* the stated procedure: of the working copy, the first item whose ratio no
\* other item exceeds
BestRatioPos(work) ==
    CHOOSE p \in 1..Len(work) :
        /\ \A q \in 1..Len(work) :
              Item(work[q]).defense * Item(work[p]).cost
                  <= Item(work[p]).defense * Item(work[q]).cost
        /\ \A q \in 1..(p - 1) :
              Item(work[q]).defense * Item(work[p]).cost
                  < Item(work[p]).defense * Item(work[q]).cost

Without(work, p) == SubSeq(work, 1, p - 1) \o SubSeq(work, p + 1, Len(work))

\* the stated procedure: the items accepted, in acceptance order
RECURSIVE Accepted(_, _, _)
Accepted(work, cur, acc) ==
    IF work = << >> THEN acc
    ELSE LET p    == BestRatioPos(work)
             cost == Item(work[p]).cost
         IN  IF cur + cost <= total_cost
             THEN Accepted(Without(work, p), cur + cost, Append(acc, work[p]))
             ELSE Accepted(Without(work, p), cur, acc)

IsScenario == armors = ScenarioItems /\ total_cost = 50

C9_ScenarioItem0Item1 ==
    (Returned /\ IsScenario) =>
        /\ e_output = << 0, 1 >>
        /\ SumCost(e_output) = 30
        /\ SumDefense(e_output) = 160

\* C9 (amended): on the scenario exhaustive_max_defense returns item1 and
\* item2, total cost 50, total defense 220, and that is optimal.
C9_ScenarioItem1Item2 ==
    (Returned /\ IsScenario) =>
        /\ e_output = << 1, 2 >>
        /\ SumCost(e_output) = 50
        /\ SumDefense(e_output) = 220
        /\ \A S \in SUBSET Positions :
              SetCost(S) <= total_cost => SetDefense(S) <= 220

C9_Witness ==
    /\ Returned
    /\ IsScenario
    /\ e_output = << 1, 2 >>

\* the items greedy considered and did not accept
Rejected == IF pc = "start" THEN {} ELSE Positions \ (Range(source) \cup Range(g_output))

\* the variant that keeps rejected items: accept the best-ratio item among
\* those that still fit, until none fits
RECURSIVE Retrying(_, _, _)
Retrying(work, cur, acc) ==
    LET fitting == SelectSeq(work, LAMBDA x : cur + Item(x).cost <= total_cost)
    IN  IF fitting = << >> THEN acc
        ELSE LET x == fitting[BestRatioPos(fitting)]
             IN  Retrying(SelectSeq(work, LAMBDA y : y # x),
                          cur + Item(x).cost, Append(acc, x))

\* C10: in greedy_max_defense current_cost never decreases, an item once
\* rejected fits at no later iteration, and the result is that of the
\* variant that keeps rejected items for reconsideration.
C10_RejectedNeverFitsLater ==
    [][ /\ g_current_cost' >= g_current_cost
        /\ Rejected \subseteq Rejected'
        /\ \A r \in Rejected' : g_current_cost' + Item(r).cost > total_cost
        /\ (pc = "greedy" /\ pc' = "exhaustive") =>
              g_output' = Retrying([ p \in 1..n |-> p - 1 ], 0, << >>)
      ]_vars

\* an item was rejected and an item of lower ratio was accepted after it
C10_Witness ==
    /\ pc = "greedy"
    /\ g_output # << >>
    /\ \E r \in Rejected :
          RatioGreater(Item(r), Item(g_output[Len(g_output)]))

====
